---- MODULE Spec2Model ----
(***************************************************************************)
(* Response normalisation of the document parser app (src/app.py):         *)
(* parse_ai_response, the classification chains it shares with             *)
(* render_element_content, and the callers that invoke it.                 *)
(*                                                                         *)
(* Python values are tagged records [t |-> <type name>, v |-> <payload>]:  *)
(* a str carries a TLA+ string, an int an integer, a list a sequence of    *)
(* values and a dict a function from its keys to values.                   *)
(***************************************************************************)
EXTENDS Integers, Sequences, FiniteSets, TLC

VARIABLES
    pc,                \* position inside parse_ai_response
    content,           \* the argument of parse_ai_response
    parsed,            \* local: the decoded payload
    elements,          \* local: the elements source
    idx,               \* local: position of the for loop in the elements source
    plain_text_parts,  \* local: the paragraphs collected so far
    result,            \* local: the result mapping, returned at the end
    caught,            \* the exception the except clause handled ("" if none)
    raised,            \* the exception that left the function ("" if none)
    prev,              \* what the caller got from the previous call
    \* display_parsed_content
    elements_by_page,  \* local: the elements of each page_id
    no_page_elements,  \* local: the elements without page_id
    page_ids,          \* local: the sorted page keys
    selected_page,     \* the page chosen in the "Select Page" box
    rendered,          \* the elements handed to render_element_content, with the branch taken
    download_txt,      \* data of the "Download as Text" button
    download_json,     \* data of the "Download as JSON" button
    \* document_parser_tab
    uploaded_files,    \* the files in the uploader, in order
    session_state,     \* st.session_state: result key -> stored parsed_content
    displayed,         \* per file card of the last run: the content handed to display_parsed_content
    last               \* the event of the last run and what the services answered

parseVars == <<pc, content, parsed, elements, idx, plain_text_parts, result, caught, raised, prev>>
viewVars ==
    <<elements_by_page, no_page_elements, page_ids, selected_page, rendered,
      download_txt, download_json>>
tabVars == <<uploaded_files, session_state, displayed, last>>
vars == <<parseVars, viewVars, tabVars>>

----------------------------------------------------------------------------
(* Python values *)

PyNone == [t |-> "NoneType", v |-> "None"]
Str(s) == [t |-> "str", v |-> s]
Num(n) == [t |-> "int", v |-> n]
List(q) == [t |-> "list", v |-> q]
Dict(f) == [t |-> "dict", v |-> f]
EmptyDict == Dict(<<>>)

IsStr(x) == x.t = "str"
IsList(x) == x.t = "list"
IsDict(x) == x.t = "dict"

\* bool(x): the truth value Python gives x in `if x` / `not x`
Truthy(x) ==
    CASE x.t = "NoneType" -> FALSE
      [] x.t = "str" -> x.v # ""
      [] x.t = "int" -> x.v # 0
      [] x.t = "list" -> Len(x.v) # 0
      [] x.t = "dict" -> DOMAIN x.v # {}

\* k in d
Has(d, k) == k \in DOMAIN d.v

\* d.get(k, default)
Get(d, k, default) == IF Has(d, k) THEN d.v[k] ELSE default

\* {k: v for k, v in d.items() if k != key}
Without(d, key) == Dict([k \in (DOMAIN d.v) \ {key} |-> d.v[k]])

\* The order in which the keys of a mapping are written and iterated.
KeyOrder ==
    <<"document", "elements", "page_count", "status", "type", "content", "text",
      "description", "id", "page_id", "bbox", "coord", "note">>

Keys(d) == SelectSeq(KeyOrder, LAMBDA k : k \in DOMAIN d.v)

RECURSIVE Join(_, _)
\* sep.join(parts)
Join(sep, parts) ==
    IF Len(parts) = 0 THEN ""
    ELSE IF Len(parts) = 1 THEN parts[1]
    ELSE parts[1] \o sep \o Join(sep, Tail(parts))

RECURSIVE PyRepr(_)
\* repr(x)
PyRepr(x) ==
    CASE x.t = "NoneType" -> "None"
      [] x.t = "str" -> "'" \o x.v \o "'"
      [] x.t = "int" -> ToString(x.v)
      [] x.t = "list" ->
            "[" \o Join(", ", [i \in 1..Len(x.v) |-> PyRepr(x.v[i])]) \o "]"
      [] x.t = "dict" ->
            LET ks == Keys(x)
            IN "{" \o Join(", ", [i \in 1..Len(ks) |->
                          "'" \o ks[i] \o "': " \o PyRepr(x.v[ks[i]])]) \o "}"

\* str(x)
PyStr(x) == IF IsStr(x) THEN x.v ELSE PyRepr(x)

\* s.lower(), on the labels the payloads use
Lower(s) ==
    CASE s = "TABLE" -> "table"
      [] s = "Figure" -> "figure"
      [] s = "TITLE" -> "title"
      [] s = "Section_Header" -> "section_header"
      [] s = "Paragraph" -> "paragraph"
      [] s = "List_Item" -> "list_item"
      [] s = "FOOTER" -> "footer"
      [] s = "Unknown_XYZ" -> "unknown_xyz"
      [] OTHER -> s

----------------------------------------------------------------------------
(* JSON text: what the parse service writes and json.loads reads *)

RECURSIVE Dumps(_)
\* The JSON text of a value.
Dumps(x) ==
    CASE x.t = "NoneType" -> "null"
      [] x.t = "str" -> "\"" \o x.v \o "\""
      [] x.t = "int" -> ToString(x.v)
      [] x.t = "list" ->
            "[" \o Join(", ", [i \in 1..Len(x.v) |-> Dumps(x.v[i])]) \o "]"
      [] x.t = "dict" ->
            LET ks == Keys(x)
            IN "{" \o Join(", ", [i \in 1..Len(ks) |->
                          "\"" \o ks[i] \o "\": " \o Dumps(x.v[ks[i]])]) \o "}"

----------------------------------------------------------------------------
(* The payloads the parse call is run on *)

\* Longest elements sequence of a payload.
MaxElems == 2

\* Element mappings, one per case of the element loop.
Items ==
    { Dict([type |-> Str("table"), content |-> Str("<table>t</table>")]),
      Dict([type |-> Str("Figure"), description |-> Str("a chart"), id |-> Num(7)]),
      Dict([type |-> Str("TITLE"), content |-> Str("Intro"), page_id |-> Num(0)]),
      Dict([type |-> Str("paragraph"), content |-> Str("body"),
            bbox |-> List(<<Dict([page_id |-> Num(3)])>>)]),
      Dict([page_id |-> Num(2), bbox |-> List(<<Dict([page_id |-> Num(3)])>>),
            content |-> Num(5)]),
      Dict([type |-> Str("image"), bbox |-> List(<<EmptyDict>>)]),
      Dict([type |-> Str("picture"), description |-> Str("a photo")]),
      Dict([type |-> Str("footer"), description |-> Str("p. 1"),
            bbox |-> Str("0,0,10,10"), coord |-> List(<<Num(1)>>)]),
      Dict([type |-> Str("list_item"), content |-> Str("item"),
            coord |-> List(<<Num(1)>>)]),
      EmptyDict,
      Dict([type |-> PyNone, content |-> Str("untyped")]),
      Dict([type |-> Str("text"), content |-> Str("empty box"), bbox |-> List(<<>>)]),
      Dict([type |-> Str("text"), content |-> Str("paged"), page_id |-> Num(1),
            bbox |-> List(<<>>)]),
      Dict([type |-> Str("text"), content |-> Str("odd box"),
            bbox |-> List(<<Str("x")>>)]) }

\* Entries of an elements sequence that are no mappings.
Strays == { Str("stray"), Num(7) }

RECURSIVE SeqsUpTo(_, _)
\* The sequences over S of length at most n.
SeqsUpTo(S, n) ==
    IF n = 0 THEN { <<>> }
    ELSE LET shorter == SeqsUpTo(S, n - 1)
         IN shorter \cup { Append(q, x) : q \in shorter, x \in S }

ElementLists == { List(q) : q \in SeqsUpTo(Items \cup Strays, MaxElems) }

\* The elements sequences of at most one entry.
ShortLists == { List(q) : q \in SeqsUpTo(Items \cup Strays, 1) }

\* Every type label of the classification chains, in lower and mixed case.
Labels ==
    { "table", "tables", "figure", "image", "picture", "chart", "diagram",
      "header", "page_header", "title", "heading", "section_header",
      "text", "paragraph", "body", "list", "list_item", "bullet",
      "footer", "page_footer", "unknown_xyz",
      "TABLE", "Figure", "TITLE", "Section_Header", "Paragraph", "List_Item",
      "FOOTER", "Unknown_XYZ" }

LabelLists ==
    { List(<<Dict([type |-> Str(l), content |-> Str("c")])>>) : l \in Labels }

\* Values of an 'elements' key: sequences, and values that are no sequence.
ElementsValues == ElementLists \cup { Num(5), PyNone, Dict([note |-> Str("n")]) }

\* Values of a 'content' / 'text' key.
TextValues == { Str("hello"), Str(""), Num(5), PyNone }

Payloads ==
    \* Structure 1: {"document": {"elements": [...]}}
         { Dict([document |-> Dict([elements |-> x])]) : x \in ElementsValues }
    \cup { Dict([document |-> Dict([elements |-> x, page_count |-> Num(2)]),
                 status |-> Str("ok")]) : x \in ShortLists }
    \cup { Dict([document |-> Dict([page_count |-> Num(2)])]) }
    \* Structure 2: {"elements": [...]}
    \cup { Dict([elements |-> x]) : x \in ElementsValues }
    \cup { Dict([elements |-> x, page_count |-> Num(2)]) : x \in ShortLists }
    \cup { Dict([document |-> d, elements |-> x]) :
              d \in { Str("none"), Dict([elements |-> List(<<>>)]) },
              x \in ShortLists }
    \* Structure 3: direct content or another mapping
    \cup { Dict([content |-> x]) : x \in TextValues }
    \cup { Dict([text |-> x]) : x \in TextValues }
    \cup { Dict([content |-> Str("hello"), text |-> Str("other")]),
           Dict([elements |-> List(<<>>), content |-> Str("hello")]),
           Dict([status |-> Str("ok"), note |-> Num(1)]),
           EmptyDict }
    \* Structure 4: a direct array of elements
    \cup ElementLists
    \cup LabelLists
    \* JSON text that is neither a mapping nor an array
    \cup { Num(5), Str("hi"), PyNone }

\* Text that is no JSON.
NonJson == { "just some text", "{\"elements\": [", "[{\"type\": \"table\"}" }

\* The arguments parse_ai_response is called with: JSON text, other text,
\* the empty string and None.
Contents ==
    { Str(Dumps(p)) : p \in Payloads } \cup { Str(s) : s \in NonJson }
        \cup { Str(""), PyNone }

\* The decoder's table: each JSON text with the value it stands for.
Wire == { <<Dumps(p), p>> : p \in Payloads }

\* json.loads(s): the decoded value, or JSONDecodeError
Loads(s) ==
    IF \E w \in Wire : w[1] = s
    THEN [exc |-> "", val |-> (CHOOSE w \in Wire : w[1] = s)[2]]
    ELSE [exc |-> "JSONDecodeError", val |-> PyNone]

----------------------------------------------------------------------------
(* parse_ai_response: the expressions of its body *)

\* An evaluation either gives a value or raises an exception.
Ok(x) == [exc |-> "", val |-> x]
Raise(e) == [exc |-> e, val |-> PyNone]

\* except (json.JSONDecodeError, TypeError, AttributeError)
Handled == { "JSONDecodeError", "TypeError", "AttributeError" }

\* result = {...}: the result mapping as first built
\* NewResult keeping the text form of the content instead of the content.
NewResultStringified(c) ==
    [ is_json |-> FALSE, elements |-> <<>>, raw_content |-> Str(PyStr(c)), plain_text |-> "",
      tables |-> <<>>, figures |-> <<>>, headers |-> <<>>, metadata |-> EmptyDict ]

NewResult(c) ==
    [ is_json |-> FALSE, elements |-> <<>>, raw_content |-> c, plain_text |-> "",
      tables |-> <<>>, figures |-> <<>>, headers |-> <<>>, metadata |-> EmptyDict ]

\* EarlyReturn for None only.
EarlyReturnNoneOnly(c) == c = PyNone

\* if not content: return result
EarlyReturn(c) == ~Truthy(c)

\* parsed = json.loads(content) if isinstance(content, str) else content
Decoded(c) == IF IsStr(c) THEN Loads(c.v) ELSE Ok(c)

\* 'document' in parsed and isinstance(parsed['document'], dict)
HasDocument(p) == Has(p, "document") /\ IsDict(p.v["document"])

\* ElementsOf looking at the top-level 'elements' key before the 'document' key.
ElementsOfTopFirst(p) ==
    IF IsDict(p)
    THEN IF Has(p, "elements") THEN Get(p, "elements", List(<<>>))
         ELSE IF HasDocument(p) THEN Get(p.v["document"], "elements", List(<<>>))
         ELSE List(<<>>)
    ELSE IF IsList(p) THEN p
    ELSE List(<<>>)

\* elements, as the shape branches leave it
ElementsOf(p) ==
    IF IsDict(p)
    THEN IF HasDocument(p) THEN Get(p.v["document"], "elements", List(<<>>))
         ELSE IF Has(p, "elements") THEN Get(p, "elements", List(<<>>))
         ELSE List(<<>>)
    ELSE IF IsList(p) THEN p
    ELSE List(<<>>)

\* MetadataOf without the `if k != 'elements'` filter of the comprehensions.
MetadataKeepsElements(p) ==
    IF IsDict(p)
    THEN IF HasDocument(p) THEN p.v["document"]
         ELSE IF Has(p, "elements") THEN p
         ELSE IF Has(p, "content") THEN EmptyDict
         ELSE IF Has(p, "text") THEN EmptyDict
         ELSE p
    ELSE EmptyDict

\* result['metadata'], as the shape branches leave it
MetadataOf(p) ==
    IF IsDict(p)
    THEN IF HasDocument(p) THEN Without(p.v["document"], "elements")
         ELSE IF Has(p, "elements") THEN Without(p, "elements")
         ELSE IF Has(p, "content") THEN EmptyDict
         ELSE IF Has(p, "text") THEN EmptyDict
         ELSE p
    ELSE EmptyDict

\* result['plain_text'], as the shape branches leave it
DirectText(p) ==
    IF IsDict(p) /\ ~HasDocument(p) /\ ~Has(p, "elements")
    THEN IF Has(p, "content") THEN PyStr(Get(p, "content", Str("")))
         ELSE IF Has(p, "text") THEN PyStr(Get(p, "text", Str("")))
         ELSE ""
    ELSE ""

\* iter(x), for the values an elements source can be: the entries of a list,
\* the keys of a dict, TypeError for an int or None
Iter(x) ==
    CASE x.t = "list" -> Ok(x)
      [] x.t = "dict" -> LET ks == Keys(x) IN Ok(List([i \in 1..Len(ks) |-> Str(ks[i])]))
      [] x.t \in {"int", "NoneType"} -> Raise("TypeError")

\* elem.get('type', 'unknown').lower()
ElemType(elem) ==
    LET ty == Get(elem, "type", Str("unknown"))
    IN IF IsStr(ty) THEN Ok(Str(Lower(ty.v))) ELSE Raise("AttributeError")

\* elem.get('bbox', [{}])[0].get('page_id') if isinstance(elem.get('bbox'), list) else None
BboxPageId(elem) ==
    IF IsList(Get(elem, "bbox", PyNone))
    THEN LET bbox == Get(elem, "bbox", List(<<EmptyDict>>))
         IN IF Len(bbox.v) = 0 THEN Raise("IndexError")
            ELSE IF ~IsDict(bbox.v[1]) THEN Raise("AttributeError")
            ELSE Ok(Get(bbox.v[1], "page_id", PyNone))
    ELSE Ok(PyNone)

\* elem.get('page_id', <the bbox expression>): Python evaluates the default
\* before the lookup
PageId(elem) ==
    LET default == BboxPageId(elem)
    IN IF default.exc # "" THEN default ELSE Ok(Get(elem, "page_id", default.val))

\* processed_elem = {...}
ProcessedElem(elem, elem_type, page_id) ==
    [ type |-> elem_type,
      content |-> Get(elem, "content", Str("")),
      description |-> Get(elem, "description", Str("")),
      id |-> Get(elem, "id", PyNone),
      page_id |-> page_id,
      bbox |-> Get(elem, "bbox", Get(elem, "coord", PyNone)),
      raw |-> elem ]

\* Bucket with 'image' and 'title' missing from the lists of the chain.
BucketShortLists(elem_type) ==
    IF elem_type \in {"table", "tables"} THEN "tables"
    ELSE IF elem_type \in {"figure", "picture", "chart", "diagram"} THEN "figures"
    ELSE IF elem_type \in {"header", "page_header", "heading", "section_header"}
         THEN "headers"
    ELSE ""

\* The list of the result an element is also appended to ("" for none).
Bucket(elem_type) ==
    IF elem_type \in {"table", "tables"} THEN "tables"
    ELSE IF elem_type \in {"figure", "image", "picture", "chart", "diagram"} THEN "figures"
    ELSE IF elem_type \in {"header", "page_header", "title", "heading", "section_header"}
         THEN "headers"
    ELSE ""

\* What an element adds to plain_text_parts.
TextParts(e) ==
    IF Truthy(e.content) THEN <<PyStr(e.content)>>
    ELSE IF Truthy(e.description)
         THEN <<"[" \o e.type \o ": " \o PyStr(e.description) \o "]">>
    ELSE <<>>

\* RenderBranch with 'image' and 'title' missing from the lists of the chain.
RenderBranchShortLists(elem_type) ==
    IF elem_type \in {"table", "tables"} THEN "Table"
    ELSE IF elem_type \in {"figure", "picture", "chart", "diagram"} THEN "Figure"
    ELSE IF elem_type \in {"header", "page_header", "heading", "section_header"}
         THEN "Header"
    ELSE IF elem_type \in {"text", "paragraph", "body"} THEN "Text"
    ELSE IF elem_type \in {"list", "list_item", "bullet"} THEN "List"
    ELSE IF elem_type \in {"footer", "page_footer"} THEN "Footer"
    ELSE "Other"

\* The branch of render_element_content an element type takes.
RenderBranch(elem_type) ==
    IF elem_type \in {"table", "tables"} THEN "Table"
    ELSE IF elem_type \in {"figure", "image", "picture", "chart", "diagram"} THEN "Figure"
    ELSE IF elem_type \in {"header", "page_header", "title", "heading", "section_header"}
         THEN "Header"
    ELSE IF elem_type \in {"text", "paragraph", "body"} THEN "Text"
    ELSE IF elem_type \in {"list", "list_item", "bullet"} THEN "List"
    ELSE IF elem_type \in {"footer", "page_footer"} THEN "Footer"
    ELSE "Other"

----------------------------------------------------------------------------
(* parse_ai_response: its steps *)

NoCall == [called |-> FALSE, content |-> PyNone, raised |-> "", result |-> NewResult(PyNone)]

\* Nothing is displayed yet.
NoView ==
    /\ elements_by_page = [p \in {} |-> <<>>]
    /\ no_page_elements = <<>>
    /\ page_ids = <<>>
    /\ selected_page = PyNone
    /\ rendered = <<>>
    /\ download_txt = PyNone
    /\ download_json = PyNone

\* No file: the run was not started by a Parse button.
NoFile == <<>>

\* No statement was executed.
NoAnswer == [kind |-> "none", row |-> <<>>]

\* No file is uploaded and the session state is empty.
NoTab ==
    /\ uploaded_files = <<>>
    /\ session_state = [k \in {} |-> PyNone]
    /\ displayed = [f \in {} |-> PyNone]
    /\ last = [event |-> "start", file |-> NoFile, read |-> "", upload |-> "", answer |-> NoAnswer]

Init ==
    /\ pc = "call"
    /\ content \in Contents
    /\ parsed = PyNone
    /\ elements = List(<<>>)
    /\ idx = 0
    /\ plain_text_parts = <<>>
    /\ result = NewResult(PyNone)
    /\ caught = ""
    /\ raised = ""
    /\ prev = NoCall
    /\ NoView
    /\ NoTab

\* The function is entered: result is built; empty content returns it as is.
Enter ==
    /\ pc = "call"
    /\ result' = NewResult(content)
    /\ pc' = IF EarlyReturn(content) THEN "done" ELSE "try"
    /\ UNCHANGED <<content, parsed, elements, idx, plain_text_parts, caught, raised, prev>>
    /\ UNCHANGED <<viewVars, tabVars>>

\* try: the content is decoded; is_json is set once that succeeded.
Decode ==
    /\ pc = "try"
    /\ LET d == Decoded(content)
       IN IF d.exc # ""
          THEN /\ caught' = d.exc
               /\ pc' = "except"
               /\ UNCHANGED <<parsed, result>>
          ELSE /\ parsed' = d.val
               /\ result' = [result EXCEPT !.is_json = TRUE]
               /\ pc' = "shape"
               /\ UNCHANGED caught
    /\ UNCHANGED <<content, elements, idx, plain_text_parts, raised, prev>>
    /\ UNCHANGED <<viewVars, tabVars>>

\* The shape branches, and the start of the loop over the elements source.
SelectShape ==
    /\ pc = "shape"
    /\ elements' = ElementsOf(parsed)
    /\ result' = [result EXCEPT !.metadata = MetadataOf(parsed),
                                !.plain_text = DirectText(parsed)]
    /\ plain_text_parts' = <<>>
    /\ LET it == Iter(ElementsOf(parsed))
       IN IF it.exc # ""
          THEN /\ caught' = it.exc
               /\ pc' = "except"
               /\ UNCHANGED idx
          ELSE /\ idx' = 1
               /\ pc' = "loop"
               /\ UNCHANGED caught
    /\ UNCHANGED <<content, parsed, raised, prev>>
    /\ UNCHANGED <<viewVars, tabVars>>

\* The entries the loop visits.
Entries == Iter(elements).val.v

\* The result with one processed element appended.
Appended(r, e) ==
    LET b == Bucket(e.type)
    IN [r EXCEPT !.elements = Append(@, e),
                 !.tables = IF b = "tables" THEN Append(@, e) ELSE @,
                 !.figures = IF b = "figures" THEN Append(@, e) ELSE @,
                 !.headers = IF b = "headers" THEN Append(@, e) ELSE @]

\* One round of the loop.
ProcessElement ==
    /\ pc = "loop"
    /\ idx <= Len(Entries)
    /\ LET elem == Entries[idx]
           ty == ElemType(elem)
           pg == PageId(elem)
           exc == IF ty.exc # "" THEN ty.exc ELSE pg.exc
       IN IF ~IsDict(elem)
          THEN /\ idx' = idx + 1
               /\ UNCHANGED <<pc, result, plain_text_parts, caught, raised>>
          ELSE IF exc # ""
          THEN /\ IF exc \in Handled
                  THEN caught' = exc /\ pc' = "except" /\ UNCHANGED raised
                  ELSE raised' = exc /\ pc' = "raised" /\ UNCHANGED caught
               /\ UNCHANGED <<idx, result, plain_text_parts>>
          ELSE LET e == ProcessedElem(elem, ty.val.v, pg.val)
               IN /\ result' = Appended(result, e)
                  /\ plain_text_parts' = plain_text_parts \o TextParts(e)
                  /\ idx' = idx + 1
                  /\ UNCHANGED <<pc, caught, raised>>
    /\ UNCHANGED <<content, parsed, elements, prev>>
    /\ UNCHANGED <<viewVars, tabVars>>

\* After the loop: plain_text is rebuilt from the parts, and the result returned.
Finish ==
    /\ pc = "loop"
    /\ idx > Len(Entries)
    /\ result' = [result EXCEPT !.plain_text = Join("\n\n", plain_text_parts)]
    /\ pc' = "done"
    /\ UNCHANGED <<content, parsed, elements, idx, plain_text_parts, caught, raised, prev>>
    /\ UNCHANGED <<viewVars, tabVars>>

\* The except clause: the content is kept as plain text, and the result returned.
Except ==
    /\ pc = "except"
    /\ result' = [result EXCEPT !.plain_text = PyStr(content)]
    /\ pc' = "done"
    /\ UNCHANGED <<content, parsed, elements, idx, plain_text_parts, caught, raised, prev>>
    /\ UNCHANGED <<viewVars, tabVars>>

----------------------------------------------------------------------------
(* display_parsed_content: the views built from the returned result *)

\* A mapping without keys.
NoPages == [p \in {} |-> <<>>]

\* HasPage by truthiness: page 0 counts as no page.
HasPageTruthy(page_id) == Truthy(page_id)

\* if page_id is not None
HasPage(page_id) == page_id # PyNone

\* The loop over parsed['elements']: page_id not None goes to its page, else to no_page.
RECURSIVE GroupByPage(_, _, _)
GroupByPage(es, by_page, no_page) ==
    IF es = <<>> THEN [elements_by_page |-> by_page, no_page_elements |-> no_page]
    ELSE LET elem == Head(es)
             page_id == elem.page_id
         IN  IF HasPage(page_id)
             THEN GroupByPage(Tail(es),
                      [p \in DOMAIN by_page \cup {page_id} |->
                          IF p = page_id
                          THEN (IF page_id \in DOMAIN by_page THEN by_page[p] ELSE <<>>)
                               \o <<elem>>
                          ELSE by_page[p]],
                      no_page)
             ELSE GroupByPage(Tail(es), by_page, Append(no_page, elem))

\* sorted(elements_by_page.keys())
RECURSIVE Sorted(_)
Sorted(keys) ==
    IF keys = {} THEN <<>>
    ELSE LET least == CHOOSE k \in keys : \A other \in keys : k.v <= other.v
         IN  <<least>> \o Sorted(keys \ {least})

\* render_element_content of each element of a list: the element with its branch.
Render(es) ==
    [i \in 1..Len(es) |-> [elem |-> es[i], branch |-> RenderBranch(Lower(es[i].type))]]

\* parsed['plain_text'] or parsed['raw_content']
PlainTextOr(r) == IF r.plain_text # "" THEN Str(r.plain_text) ELSE r.raw_content

\* "Structured View": the elements are grouped by page, one page and the elements
\* without page are rendered.
StructuredView ==
    /\ pc = "done"
    /\ IF result.is_json /\ result.elements # <<>>
       THEN LET groups == GroupByPage(result.elements, NoPages, <<>>)
                by_page == groups.elements_by_page
                ids == Sorted(DOMAIN by_page)
            IN  /\ elements_by_page' = by_page
                /\ no_page_elements' = groups.no_page_elements
                /\ page_ids' = ids
                /\ \E page \in DOMAIN by_page \cup {PyNone} :
                      /\ IF Len(ids) > 1 THEN page # PyNone
                         ELSE IF Len(ids) = 1 THEN page = ids[1]
                         ELSE page = PyNone
                      /\ selected_page' = page
                      /\ rendered' =
                            Render((IF page # PyNone THEN by_page[page] ELSE <<>>)
                                   \o groups.no_page_elements)
       ELSE UNCHANGED <<elements_by_page, no_page_elements, page_ids, selected_page, rendered>>
    /\ pc' = "tab2"
    /\ UNCHANGED <<content, parsed, elements, idx, plain_text_parts, result, caught, raised, prev>>
    /\ UNCHANGED <<download_txt, download_json, tabVars>>

\* "Plain Text": the text area and the "Download as Text" button.
PlainTextView ==
    /\ pc = "tab2"
    /\ download_txt' = PlainTextOr(result)
    /\ pc' = "tab3"
    /\ UNCHANGED <<content, parsed, elements, idx, plain_text_parts, result, caught, raised, prev>>
    /\ UNCHANGED <<elements_by_page, no_page_elements, page_ids, selected_page, rendered>>
    /\ UNCHANGED <<download_json, tabVars>>

\* "Raw JSON": the "Download as JSON" button.
RawJsonView ==
    /\ pc = "tab3"
    /\ download_json' = result.raw_content
    /\ pc' = "shown"
    /\ UNCHANGED <<content, parsed, elements, idx, plain_text_parts, result, caught, raised, prev>>
    /\ UNCHANGED <<elements_by_page, no_page_elements, page_ids, selected_page, rendered>>
    /\ UNCHANGED <<download_txt, tabVars>>

Next ==
    \/ Enter \/ Decode \/ SelectShape \/ ProcessElement \/ Finish \/ Except
    \/ StructuredView \/ PlainTextView \/ RawJsonView

Spec == Init /\ [][Next]_vars

\* The call has ended: it returned result, or an exception left it.
Ended == pc \in {"done", "raised"}

\* The text of {"elements": X} with the text of {"document": {"elements": X}}.
Wrapped ==
    { <<Dumps(Dict([elements |-> x])), Dumps(Dict([document |-> Dict([elements |-> x])]))>> :
         x \in ElementsValues }

\* A second call: after a call on {"elements": X} the caller runs the function
\* on the document-wrapped form {"document": {"elements": X}} of the same X.
CallWrapped ==
    /\ Ended
    /\ ~prev.called
    /\ \E w \in Wrapped : content = Str(w[1]) /\ content' = Str(w[2])
    /\ prev' = [called |-> TRUE, content |-> content, raised |-> raised, result |-> result]
    /\ pc' = "call"
    /\ parsed' = PyNone
    /\ elements' = List(<<>>)
    /\ idx' = 0
    /\ plain_text_parts' = <<>>
    /\ caught' = ""
    /\ raised' = ""
    /\ UNCHANGED result
    /\ UNCHANGED <<viewVars, tabVars>>

NextPair == Next \/ CallWrapped

SpecPair == Init /\ [][NextPair]_vars

----------------------------------------------------------------------------
(* document_parser_tab: the file cards, the Parse buttons and st.session_state *)

\* The most files in the uploader at once.
MaxFiles == 2

\* The names of the files a user uploads, as the parts they are written with.
FileNames ==
    { <<"a", ".", "b", ".", "pdf">>,
      <<"a", " ", "b", ".", "pdf">>,
      <<"c", ".", "pdf">> }

\* The lists the uploader can hold: different files, MaxFiles at most.
Uploads ==
    { files \in SeqsUpTo(FileNames, MaxFiles) :
        \A i, j \in 1..Len(files) : i # j => files[i] # files[j] }

\* A name written out.
RECURSIVE Flat(_)
Flat(name) == IF name = <<>> THEN "" ELSE Head(name) \o Flat(Tail(name))

\* name.replace(old, new)
Replace(name, old, new) == [i \in 1..Len(name) |-> IF name[i] = old THEN new ELSE name[i]]

\* file_key = uploaded_file.name.replace('.', '_').replace(' ', '_')
FileKey(name) == Replace(Replace(name, ".", "_"), " ", "_")

\* key=f"parse_{file_key}"
ButtonKey(name) == "parse_" \o Flat(FileKey(name))

\* result_key = f"parsed_result_{file_key}"
ResultKey(name) == "parsed_result_" \o Flat(FileKey(name))

\* What ai_parse_document extracts from the file of a name.
ParsedContents(name) ==
    { Str("text of " \o Flat(name)), Str("[{\"content\": \"" \o Flat(name) \o "\"}]") }

\* What execute_statement answers for the file of a name: it raises, gives no rows,
\* or gives a first row without columns, with the path only, or with the path and
\* the parsed content, which can be null or empty.
Answers(name) ==
    { [kind |-> k, row |-> <<>>] : k \in {"raises", "no rows"} }
        \cup { [kind |-> "row", row |-> r] : r \in { <<>>, <<Str(Flat(name))>> } }
        \cup { [kind |-> "row", row |-> <<Str(Flat(name)), c>>] :
                  c \in {PyNone, Str("")} \cup ParsedContents(name) }

\* upload_file_to_dbfs: the path, or None when anything was raised.
UploadFileToDbfs(file_bytes, filename, upload) ==
    IF file_bytes = "" THEN PyNone
    ELSE IF upload = "raises" THEN PyNone
    ELSE Str("/tmp/document_parser/" \o Flat(filename))

\* parse_document_with_ai: the path and parsed_content of the first row, or None.
ParseDocumentWithAi(dbfs_path, answer) ==
    IF answer.kind # "row" THEN PyNone
    ELSE Dict([ path |-> IF Len(answer.row) > 0 THEN answer.row[1] ELSE dbfs_path,
                parsed_content |-> IF Len(answer.row) > 1 THEN answer.row[2] ELSE PyNone ])

\* Extracted accepting every answer of parse_document_with_ai but None.
ExtractedAnyResult(parsed_result) == parsed_result # PyNone

\* if parsed_result and parsed_result.get('parsed_content')
Extracted(parsed_result) ==
    Truthy(parsed_result) /\ Truthy(Get(parsed_result, "parsed_content", PyNone))

\* st.session_state[key] = value
Put(state, key, value) ==
    [k \in DOMAIN state \cup {key} |-> IF k = key THEN value ELSE state[k]]

\* The block under `if parse_clicked`: the session state it leaves.
ParseClicked(state, uploaded_file, click) ==
    IF click.read = "raises" THEN state
    ELSE IF click.read = "" THEN state
    ELSE LET dbfs_path == UploadFileToDbfs(click.read, uploaded_file, click.upload)
         IN  IF ~Truthy(dbfs_path) THEN state
             ELSE LET parsed_result == ParseDocumentWithAi(dbfs_path, click.answer)
                  IN  IF Extracted(parsed_result)
                      THEN Put(state, ResultKey(uploaded_file),
                               Get(parsed_result, "parsed_content", PyNone))
                      ELSE state

\* The loop over uploaded_files of one script run: each card makes its button,
\* handles its click and displays the result stored under its key. A button whose
\* key was already used in the run raises Streamlit's duplicate key error, which
\* ends the run.
RECURSIVE FileCards(_, _, _, _, _)
FileCards(files, state, shown, keys, click) ==
    IF files = <<>> THEN [session_state |-> state, displayed |-> shown]
    ELSE LET uploaded_file == Head(files)
             result_key == ResultKey(uploaded_file)
         IN  IF ButtonKey(uploaded_file) \in keys
             THEN [session_state |-> state, displayed |-> shown]
             ELSE LET stored == IF click.file = uploaded_file
                                THEN ParseClicked(state, uploaded_file, click)
                                ELSE state
                      showing ==
                          IF result_key \in DOMAIN stored
                          THEN [f \in DOMAIN shown \cup {uploaded_file} |->
                                   IF f = uploaded_file THEN Str(PyStr(stored[result_key]))
                                   ELSE shown[f]]
                          ELSE shown
                  IN  FileCards(Tail(files), stored, showing,
                                keys \cup {ButtonKey(uploaded_file)}, click)

\* The cards that were made before a run ended: their buttons can be clicked.
RECURSIVE Cards(_, _)
Cards(files, keys) ==
    IF files = <<>> \/ ButtonKey(Head(files)) \in keys THEN {}
    ELSE {Head(files)} \cup Cards(Tail(files), keys \cup {ButtonKey(Head(files))})

\* One script run of the tab.
Rerun(files, click) ==
    LET run == FileCards(files, session_state, [f \in {} |-> PyNone], {}, click)
    IN  /\ uploaded_files' = files
        /\ session_state' = run.session_state
        /\ displayed' = run.displayed
        /\ last' = click

\* The tab before any upload; no content is being parsed.
InitTab ==
    /\ pc = "call"
    /\ content = PyNone
    /\ parsed = PyNone
    /\ elements = List(<<>>)
    /\ idx = 0
    /\ plain_text_parts = <<>>
    /\ result = NewResult(PyNone)
    /\ caught = ""
    /\ raised = ""
    /\ prev = NoCall
    /\ NoView
    /\ NoTab

\* The user changes the files in the uploader: the script runs without a click.
UploadFiles ==
    /\ \E files \in Uploads :
          /\ files # uploaded_files
          /\ Rerun(files, [event |-> "upload", file |-> NoFile, read |-> "",
                           upload |-> "", answer |-> NoAnswer])
    /\ UNCHANGED <<parseVars, viewVars>>

\* What the services answer during one click, up to the first that ends the
\* attempt: services that are not reached answer nothing.
Attempts(name) ==
    { [read |-> r, upload |-> "", answer |-> NoAnswer] : r \in {"raises", ""} }
        \cup { [read |-> "%PDF", upload |-> "raises", answer |-> NoAnswer] }
        \cup { [read |-> "%PDF", upload |-> "ok", answer |-> a] : a \in Answers(name) }

\* The user clicks the Parse button of a card: the script runs with that click.
ParseDocument ==
    /\ \E f \in Cards(uploaded_files, {}) :
       \E attempt \in Attempts(f) :
          Rerun(uploaded_files, [event |-> "parse", file |-> f, read |-> attempt.read,
                                 upload |-> attempt.upload, answer |-> attempt.answer])
    /\ UNCHANGED <<parseVars, viewVars>>

NextTab == UploadFiles \/ ParseDocument

SpecTab == InitTab /\ [][NextTab]_vars

----------------------------------------------------------------------------
(* The claims *)

\* The type label of an element mapping, None when the key is missing.
LabelOf(item) == Get(item, "type", PyNone)

\* The synonym table of the classifier: the category of a type label.
SynonymCategory(label) ==
    IF ~IsStr(label) THEN "Other"
    ELSE LET l == Lower(label.v)
         IN CASE l \in {"table", "tables"} -> "Table"
              [] l \in {"figure", "image", "picture", "chart", "diagram"} -> "Figure"
              [] l \in {"header", "page_header", "title", "heading", "section_header"}
                    -> "Header"
              [] l \in {"text", "paragraph", "body"} -> "Text"
              [] l \in {"list", "list_item", "bullet"} -> "List"
              [] l \in {"footer", "page_footer"} -> "Footer"
              [] OTHER -> "Other"

\* The page an element mapping resolves to by the stated precedence.
ResolvedPage(item) ==
    LET bbox == Get(item, "bbox", PyNone)
    IN IF Has(item, "page_id") THEN item.v["page_id"]
       ELSE IF IsList(bbox) /\ Len(bbox.v) > 0 /\ IsDict(bbox.v[1])
                 /\ Has(bbox.v[1], "page_id")
            THEN bbox.v[1].v["page_id"]
       ELSE PyNone

\* The source mappings of a sequence of processed elements.
Raws(es) == [i \in 1..Len(es) |-> es[i].raw]

\* The members of a sequence.
Range(q) == { q[i] : i \in 1..Len(q) }

\* The loop is about to process a mapping.
AtMapping == pc = "loop" /\ idx <= Len(Entries) /\ IsDict(Entries[idx])

\* The step appended one element to the result.
AppendedOne == Len(result'.elements) = Len(result.elements) + 1

\* C1: parse_ai_response is total: for every content no exception leaves the
\* call.
C1_NeverRaises == raised = ""

\* C2: whenever the plain-text fallback (the except clause) was taken, the
\* returned result has is_json false, plain_text equal to the content, and
\* elements, tables, figures and headers empty.
C2_FallbackResult ==
    (pc = "done" /\ caught # "") =>
        /\ ~result.is_json
        /\ result.plain_text = content.v
        /\ result.elements = <<>>
        /\ result.tables = <<>>
        /\ result.figures = <<>>
        /\ result.headers = <<>>

\* C3: for a decoded mapping without a 'document' mapping and without
\* 'elements', the returned plain_text is the stringified 'content' value, or
\* the stringified 'text' value when there is no 'content', and elements is
\* empty.
C3_DirectText ==
    (pc = "done" /\ IsDict(parsed) /\ ~HasDocument(parsed) /\ ~Has(parsed, "elements")) =>
        /\ Has(parsed, "content") =>
              result.plain_text = PyStr(parsed.v["content"]) /\ result.elements = <<>>
        /\ (~Has(parsed, "content") /\ Has(parsed, "text")) =>
              result.plain_text = PyStr(parsed.v["text"]) /\ result.elements = <<>>

\* C4: a malformed entry never aborts the batch: when the call has ended on an
\* elements sequence, every mapping of the sequence has been appended to
\* elements, in order, and the entries that are no mappings were skipped.
C4_BatchSurvives ==
    (Ended /\ result.is_json /\ IsList(elements)) =>
        Raws(result.elements) = SelectSeq(elements.v, IsDict)

\* C5: for a bare array of element mappings the returned elements has the
\* length and the order of the array, and element i carries the category of
\* the type label of entry i.
C5_BareArray ==
    (pc = "done" /\ IsList(parsed) /\ \A i \in 1..Len(parsed.v) : IsDict(parsed.v[i])) =>
        /\ Len(result.elements) = Len(parsed.v)
        /\ \A i \in 1..Len(parsed.v) :
              /\ result.elements[i].raw = parsed.v[i]
              /\ RenderBranch(result.elements[i].type) = SynonymCategory(LabelOf(parsed.v[i]))

\* C6: every element mapping (whose type label is a string) gets the page of
\* the precedence: its own page_id whatever bbox holds, else the page_id of a
\* first bbox entry that is a mapping, else None.
C6_PagePrecedence ==
    [][ (AtMapping /\ ElemType(Entries[idx]).exc = "") =>
            /\ AppendedOne
            /\ result'.elements[Len(result'.elements)].page_id = ResolvedPage(Entries[idx])
      ]_vars

\* C7: classification is total and case-insensitive: every element mapping
\* whose type label is a string in any letter case, missing or None (and whose
\* page resolves) is appended with the category of the synonym table, Other
\* for an unmatched or missing label.
C7_Classified ==
    [][ (AtMapping /\ LabelOf(Entries[idx]).t \in {"str", "NoneType"}
                   /\ PageId(Entries[idx]).exc = "") =>
            /\ AppendedOne
            /\ RenderBranch(result'.elements[Len(result'.elements)].type)
                  = SynonymCategory(LabelOf(Entries[idx]))
      ]_vars

\* C8: tables, figures and headers are exactly the elements of category
\* Table, Figure and Header, in the order of elements and with the same field
\* values, and no element is in two of them.
C8_Buckets ==
    LET Of(cat) == SelectSeq(result.elements,
                             LAMBDA e : SynonymCategory(LabelOf(e.raw)) = cat)
    IN /\ result.tables = Of("Table")
       /\ result.figures = Of("Figure")
       /\ result.headers = Of("Header")
       /\ Range(result.tables) \cap Range(result.figures) = {}
       /\ Range(result.tables) \cap Range(result.headers) = {}
       /\ Range(result.figures) \cap Range(result.headers) = {}

\* C8 witness: a returned result with a table, a figure or header beside it.
C8_Witness ==
    /\ pc = "done"
    /\ Len(result.tables) = 1
    /\ Len(result.figures) + Len(result.headers) = 1
    /\ Len(result.elements) = 2

\* m holds exactly the keys of d other than 'elements', with d's values.
IsRestOf(m, d) ==
    /\ IsDict(m)
    /\ DOMAIN m.v = (DOMAIN d.v) \ {"elements"}
    /\ \A k \in DOMAIN m.v : m.v[k] = d.v[k]

\* C9: for a document-wrapped payload the returned metadata is exactly the
\* other keys of the 'document' mapping, never 'elements'; for a payload with
\* a top-level 'elements' key and no 'document' mapping it is exactly the
\* other top-level keys.
C9_Metadata ==
    (pc = "done" /\ IsDict(parsed)) =>
        /\ HasDocument(parsed) => IsRestOf(result.metadata, parsed.v["document"])
        /\ (~HasDocument(parsed) /\ Has(parsed, "elements")) =>
              IsRestOf(result.metadata, parsed)

\* C9 witness: a returned result of a document-wrapped payload with elements
\* and page_count.
C9_Witness ==
    /\ pc = "done"
    /\ IsDict(parsed)
    /\ HasDocument(parsed)
    /\ Has(parsed.v["document"], "elements")
    /\ Has(parsed.v["document"], "page_count")
    /\ Has(result.metadata, "page_count")
    /\ Len(result.elements) = 1

\* C10: for every elements value X the call on {"elements": X} and the call on
\* {"document": {"elements": X}} end the same way, with the same is_json,
\* elements, tables, figures, headers and plain_text.
C10_SameAsWrapped ==
    (Ended /\ prev.called) =>
        /\ raised = prev.raised
        /\ raised = "" =>
              /\ result.is_json = prev.result.is_json
              /\ result.elements = prev.result.elements
              /\ result.tables = prev.result.tables
              /\ result.figures = prev.result.figures
              /\ result.headers = prev.result.headers
              /\ result.plain_text = prev.result.plain_text

\* C11: whatever the content and whichever path the call took (empty content, the
\* except clause, each shape), the returned result's raw_content is the content that
\* was passed in, and so is the data of the "Download as JSON" button.
C11_RawContent ==
    /\ pc \in {"done", "tab2", "tab3", "shown"} => result.raw_content = content
    /\ pc = "shown" => download_json = content

\* A result with elements that came back through the except clause, and was displayed.
C11_Witness ==
    /\ pc = "shown"
    /\ caught # ""
    /\ result.elements # <<>>
    /\ download_json = content

\* C12: the data of the "Download as Text" button is exactly the plain_text of the
\* parsed content, also when that plain_text is the empty string.
C12_TextExport == pc \in {"tab3", "shown"} => download_txt = Str(result.plain_text)

\* C13: for content that is the empty string or None, the call returns at once: no
\* decode is attempted (the try block is never entered, nothing is caught or raised),
\* and the result has is_json False, no elements, no tables, figures or headers, the
\* empty plain_text and empty metadata.
C13_EmptyContent ==
    content \in {Str(""), PyNone} =>
        /\ pc \in {"call", "done", "tab2", "tab3", "shown"}
        /\ parsed = PyNone /\ caught = "" /\ raised = ""
        /\ pc # "call" =>
              /\ result.is_json = FALSE
              /\ result.elements = <<>>
              /\ result.tables = <<>> /\ result.figures = <<>> /\ result.headers = <<>>
              /\ result.plain_text = ""
              /\ result.metadata = EmptyDict

\* The call with the empty string has returned.
C13_Witness == content = Str("") /\ pc = "done" /\ result.plain_text = ""

\* The rule of the shape priority a decoded mapping falls under.
ShapeRule(p) ==
    IF "document" \in DOMAIN p.v /\ p.v["document"].t = "dict" THEN "document"
    ELSE IF "elements" \in DOMAIN p.v THEN "elements"
    ELSE IF "content" \in DOMAIN p.v THEN "content"
    ELSE IF "text" \in DOMAIN p.v THEN "text"
    ELSE "opaque"

\* C14: for a decoded mapping the first matching rule wins: a 'document' key whose
\* value is a mapping gives document.elements (empty if absent) as the elements
\* source, else a top-level 'elements' key gives its value, else 'content' is the
\* text the selection takes, else 'text'; a 'document' that is no mapping does not
\* match the first rule; a mapping that matches no rule is kept whole as metadata,
\* with no elements and is_json True, and nothing is caught or raised.
C14_ShapePriority ==
    (IsDict(parsed) /\ pc \notin {"call", "try", "shape"}) =>
        LET rule == ShapeRule(parsed)
            document == parsed.v["document"]
        IN  /\ rule = "document" =>
                  elements = IF "elements" \in DOMAIN document.v
                             THEN document.v["elements"] ELSE List(<<>>)
            /\ rule = "elements" => elements = parsed.v["elements"]
            /\ rule \in {"content", "text", "opaque"} =>
                  elements = List(<<>>) /\ result.elements = <<>>
            /\ (rule = "content" /\ pc = "loop") =>
                  result.plain_text = PyStr(parsed.v["content"])
            /\ (rule = "text" /\ pc = "loop") =>
                  result.plain_text = PyStr(parsed.v["text"])
            /\ rule = "opaque" =>
                  /\ result.metadata = parsed
                  /\ result.is_json
                  /\ caught = "" /\ raised = ""

\* A mapping with a 'document' mapping without entries and a top-level 'elements'
\* list with entries was parsed: the document won.
C14_Witness ==
    /\ pc = "done"
    /\ IsDict(parsed)
    /\ ShapeRule(parsed) = "document"
    /\ "elements" \in DOMAIN parsed.v
    /\ Truthy(parsed.v["elements"])
    /\ result.elements = <<>>

\* The decoded payload has an elements source: it is an array, or a mapping under
\* the 'document' or the 'elements' rule.
HasElementsSource ==
    \/ IsList(parsed)
    \/ IsDict(parsed) /\ ShapeRule(parsed) \in {"document", "elements"}

\* The paragraph an element contributes: its content, else its description in
\* brackets after its category (written in lower case), else nothing.
Paragraph(e) ==
    IF Truthy(e.content) THEN <<PyStr(e.content)>>
    ELSE IF Truthy(e.description)
         THEN LET category == SynonymCategory(LabelOf(e.raw))
                  tag == CASE category = "Table" -> "table"
                           [] category = "Figure" -> "figure"
                           [] category = "Header" -> "header"
                           [] category = "Text" -> "text"
                           [] category = "List" -> "list"
                           [] category = "Footer" -> "footer"
                           [] OTHER -> "other"
              IN  <<"[" \o tag \o ": " \o PyStr(e.description) \o "]">>
    ELSE <<>>

\* The paragraphs of a sequence of elements, in order.
RECURSIVE Paragraphs(_)
Paragraphs(es) == IF es = <<>> THEN <<>> ELSE Paragraph(Head(es)) \o Paragraphs(Tail(es))

\* C15: when the payload has an elements source, the returned plain_text is the
\* paragraphs of the result's elements in their order, joined with "\n\n" and
\* nothing else: the content of an element with content, else the line
\* "[<category>: <description>]" of an element with a description, else nothing.
C15_PlainText ==
    (pc = "done" /\ HasElementsSource) =>
        result.plain_text = Join("\n\n", Paragraphs(result.elements))

\* The Structured View has grouped the elements of the returned result.
Grouped == pc \in {"tab2", "tab3", "shown"} /\ result.is_json /\ result.elements # <<>>

\* C16: the grouping of the Structured View partitions the elements: the bucket of
\* a page holds exactly the elements with that page_id, the no-page bucket exactly
\* the elements whose page_id is None, every element is in one bucket and in one
\* only, each bucket keeps the order of the elements, and the page keys are listed
\* in ascending order, each once.
C16_PageGroups ==
    Grouped =>
        LET On(page) == SelectSeq(result.elements, LAMBDA e : e.page_id = page)
            pages == { result.elements[i].page_id : i \in 1..Len(result.elements) }
        IN  /\ DOMAIN elements_by_page = pages \ {PyNone}
            /\ \A page \in DOMAIN elements_by_page : elements_by_page[page] = On(page)
            /\ no_page_elements = On(PyNone)
            /\ \A i \in 1..Len(result.elements) :
                  Cardinality({ page \in DOMAIN elements_by_page :
                                   result.elements[i] \in Range(elements_by_page[page]) })
                    + (IF result.elements[i] \in Range(no_page_elements) THEN 1 ELSE 0) = 1
            /\ Range(page_ids) = DOMAIN elements_by_page
            /\ \A i, j \in 1..Len(page_ids) : i < j => page_ids[i].v < page_ids[j].v

\* Two elements were grouped, the first on a later page than the second, one of
\* them on page 0.
C16_Witness ==
    /\ Grouped
    /\ Len(page_ids) = 2
    /\ page_ids[1] = Num(0)
    /\ result.elements[1].page_id = page_ids[2]
    /\ result.elements[2].page_id = page_ids[1]

\* C17: bucketing and presentation agree on every element: an element is rendered by
\* the table branch exactly if parse_ai_response put it into tables, by the figure
\* branch exactly if it is in figures, by the header branch exactly if it is in
\* headers, and by one of the other branches exactly if it is in none of the three.
C17_SameDispatch ==
    \A i \in 1..Len(rendered) :
        LET elem == rendered[i].elem
            branch == rendered[i].branch
        IN  /\ branch = "Table" <=> elem \in Range(result.tables)
            /\ branch = "Figure" <=> elem \in Range(result.figures)
            /\ branch = "Header" <=> elem \in Range(result.headers)
            /\ branch \in {"Text", "List", "Footer", "Other"} <=>
                  elem \notin Range(result.tables) \cup Range(result.figures)
                                  \cup Range(result.headers)

\* An element labelled 'image' and one labelled 'TITLE' were bucketed and rendered.
C17_Witness ==
    /\ pc = "shown"
    /\ Len(rendered) = 2
    /\ \E i, j \in 1..2 :
          /\ rendered[i].elem.type = "image" /\ rendered[i].branch = "Figure"
          /\ rendered[i].elem \in Range(result.figures)
          /\ rendered[j].elem.type = "title" /\ rendered[j].branch = "Header"
          /\ rendered[j].elem \in Range(result.headers)

\* C18: the results of different files share no state: the result a file's card
\* displays is a result of parsing that very file, never one that parsing a file
\* of another name stored.
C18_OwnResult ==
    \A f \in DOMAIN displayed : displayed[f] \in ParsedContents(f)

\* The last run was started by the Parse button of a file and the attempt met all
\* three conditions: bytes were read, the upload gave a path, and the first row of
\* the answer holds non-empty parsed content.
Succeeded(click) ==
    /\ click.read \notin {"raises", ""}
    /\ click.upload = "ok"
    /\ click.answer.kind = "row"
    /\ Len(click.answer.row) >= 2
    /\ click.answer.row[2] \notin {PyNone, Str("")}

\* C19: a run started by a Parse button changes the session state only when the
\* attempt succeeded, and then only by storing the parsed content under the file's
\* result key; after every other attempt the session state is as before, and a
\* result stored earlier under the file's key is the one its card displays.
C19_StoredOnlyOnSuccess ==
    [][ last'.event = "parse" =>
          LET f == last'.file
              key == ResultKey(f)
          IN  IF Succeeded(last')
              THEN /\ session_state' = Put(session_state, key, last'.answer.row[2])
                   /\ displayed'[f] = last'.answer.row[2]
              ELSE /\ session_state' = session_state
                   /\ key \in DOMAIN session_state =>
                         /\ f \in DOMAIN displayed'
                         /\ displayed'[f] = session_state[key]
      ]_vars

\* A failed attempt on a file whose earlier result is stored and still displayed.
C19_Witness ==
    /\ last.event = "parse"
    /\ ~Succeeded(last)
    /\ last.read = "%PDF" /\ last.upload = "ok"
    /\ ResultKey(last.file) \in DOMAIN session_state
    /\ last.file \in DOMAIN displayed
    /\ displayed[last.file] = session_state[ResultKey(last.file)]

====
